---- MODULE Spec2Model ----
(***************************************************************************)
(* Model of the subspedia client library (src/src/lib.rs): the request     *)
(* descriptors, fetch_json, get and the two search operations.             *)
(*                                                                         *)
(* A call of get runs on two threads: the caller, blocked inside           *)
(* tokio::run, and the runtime's worker that polls the spawned future.     *)
(* pc is the caller's position, task the future's.  The network is the     *)
(* environment: it answers a request with a response head and later the    *)
(* full body, fails it, or never answers at all.                           *)
(*                                                                         *)
(* Strings are sequences of one-character strings; format!'s literal       *)
(* pieces are kept as single tokens of such a sequence.  Of each record    *)
(* the fields the library reads (id_serie, nome_serie) and one field that  *)
(* tells the record shapes apart are modelled; the others are carried      *)
(* through deserialization untouched.                                      *)
(***************************************************************************)
EXTENDS Naturals, Sequences, FiniteSets

\* ---------------------------------------------------------------- bounds
NumCallers == 2
MaxCatalog == 2
MaxQueryLen == 2

Callers == 1..NumCallers

\* ---------------------------------------------------------------- strings
Chars == {"A", "a", "b"}

StringsUpTo(n) == UNION {[1..k -> Chars] : k \in 0..n}

\* char::to_lowercase on the letters of the model
LowerChar(ch) == IF ch = "A" THEN "a" ELSE IF ch = "B" THEN "b" ELSE ch

\* str::to_lowercase
ToLowerCase(s) == [i \in 1..Len(s) |-> LowerChar(s[i])]

\* str::contains(&str): the needle occurs as a contiguous substring
Contains(hay, needle) ==
    \E i \in 0..Len(hay) :
        /\ i + Len(needle) <= Len(hay)
        /\ SubSeq(hay, i + 1, i + Len(needle)) = needle

Digits == <<"0", "1", "2", "3", "4", "5", "6", "7", "8", "9">>

RECURSIVE Decimal(_)
\* Display of an unsigned integer, as format!("{}", n) writes it
Decimal(n) ==
    IF n < 10 THEN <<Digits[n + 1]>>
    ELSE Decimal(n \div 10) \o <<Digits[(n % 10) + 1]>>

\* ---------------------------------------------------------------- errors
NoVal == <<>>

Ok(v) == [ok |-> TRUE, kind |-> "Ok", val |-> v, msg |-> NoVal]

\* FetchError::Http(hyper::Error), via From<hyper::Error>
Http == [ok |-> FALSE, kind |-> "Http", val |-> NoVal, msg |-> NoVal]

\* FetchError::Json(serde_json::Error), via From<serde_json::Error>
Json == [ok |-> FALSE, kind |-> "Json", val |-> NoVal, msg |-> NoVal]

\* FetchError::NotFound(String)
NotFound(m) == [ok |-> FALSE, kind |-> "NotFound", val |-> NoVal, msg |-> m]

None == [ok |-> FALSE, kind |-> "None", val |-> NoVal, msg |-> NoVal]

\* ---------------------------------------------------------------- requests
ReqSerieTraduzione == [req |-> "ReqSerieTraduzione", id |-> 0]
ReqElencoSerie == [req |-> "ReqElencoSerie", id |-> 0]
ReqUltimiSottotitoli == [req |-> "ReqUltimiSottotitoli", id |-> 0]
ReqSottotitoliSerie(id) == [req |-> "ReqSottotitoliSerie", id |-> id]

\* <R as Request>::url
Url(r) ==
    CASE r.req = "ReqSerieTraduzione" ->
           <<"https://www.subspedia.tv/API/serie_traduzione">>
      [] r.req = "ReqElencoSerie" ->
           <<"https://www.subspedia.tv/API/elenco_serie">>
      [] r.req = "ReqUltimiSottotitoli" ->
           <<"https://www.subspedia.tv/API/ultimi_sottotitoli">>
      [] r.req = "ReqSottotitoliSerie" ->
           <<"https://www.subspedia.tv/API/sottotitoli_serie?serie=">> \o Decimal(r.id)

\* <R as Request>::Response
ResponseType(r) ==
    CASE r.req = "ReqSerieTraduzione" -> "SerieTraduzione"
      [] r.req = "ReqElencoSerie" -> "Serie"
      [] r.req = "ReqUltimiSottotitoli" -> "Sottotitolo"
      [] r.req = "ReqSottotitoliSerie" -> "Sottotitolo"

\* ---------------------------------------------------------------- records
\* The derived Deserialize of each record: its required fields and their types
Fields(T) ==
    CASE T = "SerieTraduzione" ->
           [id_serie |-> "num", nome_serie |-> "str", num_episodio |-> "num"]
      [] T = "Serie" ->
           [id_serie |-> "num", nome_serie |-> "str", anno |-> "num"]
      [] T = "Sottotitolo" ->
           [id_serie |-> "num", nome_serie |-> "str", ep_titolo |-> "str"]

\* JSON values on the wire: a number, a string, an array of objects, or
\* bytes that are no JSON text at all (an HTML error page, a cut body)
JNum(n) == [t |-> "num", n |-> n, s |-> <<>>]
JStr(s) == [t |-> "str", n |-> 0, s |-> s]
JArr(es) == [t |-> "arr", elems |-> es, s |-> <<>>]
JText(s) == [t |-> "str", elems |-> <<>>, s |-> s]
Garbage == [t |-> "bad", elems |-> <<>>, s |-> <<>>]

\* the Rust value of a JSON number or string
Value(j) == IF j.t = "num" THEN j.n ELSE j.s

\* serde_json::from_slice::<Vec<T>>: an array whose every element is an
\* object holding T's fields with T's types; unknown fields are ignored
Deserializes(body, T) ==
    /\ body.t = "arr"
    /\ \A i \in 1..Len(body.elems) :
         \A f \in DOMAIN Fields(T) :
            /\ f \in DOMAIN body.elems[i]
            /\ body.elems[i][f].t = Fields(T)[f]

FromSlice(body, T) ==
    IF Deserializes(body, T)
    THEN Ok([i \in 1..Len(body.elems) |->
                [f \in DOMAIN Fields(T) |-> Value(body.elems[i][f])]])
    ELSE Json

\* ---------------------------------------------------------------- searches
\* the closure of search_by_name's filter
NameMatches(s, name) ==
    Contains(ToLowerCase(s.nome_serie), ToLowerCase(name))

\* search_by_name with the comparison left case-sensitive
SearchByNameCaseSensitive(series, name) ==
    LET result == SelectSeq(series, LAMBDA s : Contains(s.nome_serie, name))
    IN  IF result # <<>>
        THEN Ok(result)
        ELSE NotFound(<<"Series with name ">> \o name \o <<" not found">>)

\* search_by_name, after get(&ReqElencoSerie)? has produced series
SearchByName(series, name) ==
    LET result == SelectSeq(series, LAMBDA s : NameMatches(s, name))
    IN  IF result # <<>>
        THEN Ok(result)
        ELSE NotFound(<<"Series with name ">> \o name \o <<" not found">>)

\* search_by_id taking the first match instead of the last
SearchByIdFirst(series, id) ==
    LET found == SelectSeq(series, LAMBDA s : s.id_serie = id)
    IN  IF found # <<>>
        THEN Ok(found[1])
        ELSE NotFound(<<"Series with id ">> \o Decimal(id) \o <<" not found.">>)

\* search_by_id, after get(&ReqElencoSerie)? has produced series:
\* filter, collect, pop
SearchById(series, id) ==
    LET found == SelectSeq(series, LAMBDA s : s.id_serie = id)
    IN  IF found # <<>>
        THEN Ok(found[Len(found)])
        ELSE NotFound(<<"Series with id ">> \o Decimal(id) \o <<" not found.">>)

\* ---------------------------------------------------------------- server
SerieIds == {7, 42}
SerieNames == {<<"A", "b">>, <<"b", "b">>, <<"a">>}
\* the ids a caller may ask for: those of the site and one it does not hold
QueryIds == SerieIds \cup {5}

SerieRecords ==
    {[id_serie |-> i, nome_serie |-> n, anno |-> 2008] :
        i \in SerieIds, n \in SerieNames}

Catalogs == UNION {[1..k -> SerieRecords] : k \in 0..MaxCatalog}

\* the JSON object the site sends for one series; link_serie stands for the
\* fields the modelled record shape does not read
EncodeSerie(s) ==
    [id_serie |-> JNum(s.id_serie), nome_serie |-> JStr(s.nome_serie),
     anno |-> JNum(s.anno), link_serie |-> JStr(<<"b">>)]

SampleTraduzione ==
    <<[id_serie |-> JNum(7), nome_serie |-> JStr(<<"A", "b">>),
       num_episodio |-> JNum(3)]>>

SampleSottotitoli(id) ==
    <<[id_serie |-> JNum(id), nome_serie |-> JStr(<<"b", "a">>),
       ep_titolo |-> JStr(<<"a">>)],
      [id_serie |-> JNum(id), nome_serie |-> JStr(<<"b", "a">>),
       ep_titolo |-> JStr(<<"A">>)]>>

\* what the endpoint of request r sends when it works
GoodBody(r, cat) ==
    CASE r.req = "ReqSerieTraduzione" -> JArr(SampleTraduzione)
      [] r.req = "ReqElencoSerie" -> JArr([i \in 1..Len(cat) |-> EncodeSerie(cat[i])])
      [] r.req = "ReqUltimiSottotitoli" -> JArr(SampleSottotitoli(42))
      [] r.req = "ReqSottotitoliSerie" -> JArr(SampleSottotitoli(r.id))

\* bodies that are not an array of the expected records: a bare string, no
\* JSON at all, an object without its required fields, a mistyped field
BadBodies ==
    {JText(<<"a">>),
     Garbage,
     JArr(<<[nome_serie |-> JStr(<<"a">>)]>>),
     JArr(<<[id_serie |-> JStr(<<"a">>), nome_serie |-> JStr(<<"a">>),
             anno |-> JNum(2008), num_episodio |-> JNum(1),
             ep_titolo |-> JStr(<<"a">>)]>>)}

Bodies(r, cat, bad) == {GoodBody(r, cat)} \cup bad

Statuses == {200, 500}

NoBody == [t |-> "none", elems |-> <<>>, s |-> <<>>]

\* ---------------------------------------------------------------- state
VARIABLES
    catalog,  \* the series the site holds
    pc,       \* per caller: its position in get / search_by_*
    task,     \* per caller: the position of the future tokio::run drives
    op,       \* per caller: the operation called and its argument
    acc,      \* per caller: the Arc<Mutex<Vec>> its get created (0: none)
    arcs,     \* the accumulators: strong count, lock, poison flag, vector
    http,     \* per caller: the exchange with the site, as far as it went
    reqlog,   \* per caller: the urls of the GET requests this call sent
    errlog,   \* per caller: what this call wrote to the error stream
    writes,   \* per caller: the appends made to the accumulator
    parsed,   \* per caller: the Result fetch_json's future resolved to
    got,      \* per caller: what get returned
    ret       \* per caller: what the operation returned

vars == <<catalog, pc, task, op, acc, arcs, http, reqlog, errlog, writes,
          parsed, got, ret>>

Requests ==
    {ReqSerieTraduzione, ReqElencoSerie, ReqUltimiSottotitoli}
        \cup {ReqSottotitoliSerie(i) : i \in SerieIds}

GetOp(r) == [kind |-> "get", req |-> r, name |-> <<>>, id |-> 0]
NameOp(n) == [kind |-> "search_by_name", req |-> ReqElencoSerie, name |-> n, id |-> 0]
IdOp(i) == [kind |-> "search_by_id", req |-> ReqElencoSerie, name |-> <<>>, id |-> i]
NoOp == [kind |-> "none", req |-> ReqElencoSerie, name |-> <<>>, id |-> 0]

\* every call of the public surface, within the bounds
AllOps ==
    {GetOp(r) : r \in Requests}
        \cup {NameOp(n) : n \in StringsUpTo(MaxQueryLen)}
        \cup {IdOp(i) : i \in QueryIds}

\* the calls concurrent callers make
ConcOps == {GetOp(ReqElencoSerie)}

NoHttp == [st |-> "none", status |-> 0, body |-> NoBody]
FreeArc == [strong |-> 0, locked |-> FALSE, poisoned |-> FALSE, data |-> <<>>]

InitCallers ==
    /\ pc = [c \in Callers |-> "idle"]
    /\ task = [c \in Callers |-> "none"]
    /\ op = [c \in Callers |-> NoOp]
    /\ acc = [c \in Callers |-> 0]
    /\ arcs = [a \in Callers |-> FreeArc]
    /\ http = [c \in Callers |-> NoHttp]
    /\ reqlog = [c \in Callers |-> <<>>]
    /\ errlog = [c \in Callers |-> <<>>]
    /\ writes = [c \in Callers |-> 0]
    /\ parsed = [c \in Callers |-> None]
    /\ got = [c \in Callers |-> None]
    /\ ret = [c \in Callers |-> None]

Init ==
    /\ catalog \in Catalogs
    /\ InitCallers

\* two series that share an id
ConcCatalog ==
    <<[id_serie |-> 42, nome_serie |-> <<"A", "b">>, anno |-> 2008],
      [id_serie |-> 42, nome_serie |-> <<"b", "b">>, anno |-> 2008]>>

InitConc ==
    /\ catalog = ConcCatalog
    /\ InitCallers

\* ---------------------------------------------------------------- get
\* A caller enters search_by_name, search_by_id or get; the searches call
\* get(&ReqElencoSerie) first.
Call(c, ops) ==
    /\ pc[c] = "idle"
    /\ \E o \in ops : op' = [op EXCEPT ![c] = o]
    /\ pc' = [pc EXCEPT ![c] = "get"]
    /\ UNCHANGED <<catalog, task, acc, arcs, http, reqlog, errlog, writes,
                   parsed, got, ret>>

\* one accumulator shared by every call, as a static would be
NewArcShared == CHOOSE a \in Callers : TRUE

\* Arc::new(Mutex::new(Vec::new())): storage no live Arc points to
NewArc == CHOOSE a \in Callers : arcs[a].strong = 0

\* get up to tokio::run: the url is parsed, the accumulator created and
\* cloned, the lazy future spawned; the caller then blocks in tokio::run
GetStart(c) ==
    /\ pc[c] = "get"
    /\ LET a == NewArc
       IN  /\ acc' = [acc EXCEPT ![c] = a]
           /\ arcs' = [arcs EXCEPT ![a] =
                          [strong |-> 2, locked |-> FALSE, poisoned |-> FALSE,
                           data |-> <<>>]]
    /\ task' = [task EXCEPT ![c] = "spawned"]
    /\ pc' = [pc EXCEPT ![c] = "run"]
    /\ UNCHANGED <<catalog, op, http, reqlog, errlog, writes, parsed, got, ret>>

\* fetch_json sending its request a second time
TaskFetchRetry(c) ==
    /\ task[c] = "spawned"
    /\ reqlog' = [reqlog EXCEPT ![c] = Append(Append(@, Url(op[c].req)), Url(op[c].req))]
    /\ http' = [http EXCEPT ![c].st = "sent"]
    /\ task' = [task EXCEPT ![c] = "await_response"]
    /\ UNCHANGED <<catalog, pc, op, acc, arcs, errlog, writes, parsed, got, ret>>

\* the lazy closure runs: fetch_json builds the client and sends the GET
TaskFetch(c) ==
    /\ task[c] = "spawned"
    /\ reqlog' = [reqlog EXCEPT ![c] = Append(@, Url(op[c].req))]
    /\ http' = [http EXCEPT ![c].st = "sent"]
    /\ task' = [task EXCEPT ![c] = "await_response"]
    /\ UNCHANGED <<catalog, pc, op, acc, arcs, errlog, writes, parsed, got, ret>>

\* the site answers: a response head with some status
NetRespond(c, statuses) ==
    /\ http[c].st = "sent"
    /\ \E s \in statuses : http' = [http EXCEPT ![c].st = "head", ![c].status = s]
    /\ UNCHANGED <<catalog, pc, task, op, acc, arcs, reqlog, errlog, writes,
                   parsed, got, ret>>

\* the first and_then: the response is turned into its body's concat2
TaskConcat(c) ==
    /\ task[c] = "await_response"
    /\ http[c].st = "head"
    /\ task' = [task EXCEPT ![c] = "await_body"]
    /\ UNCHANGED <<catalog, pc, op, acc, arcs, http, reqlog, errlog, writes,
                   parsed, got, ret>>

\* the last chunk of the body arrives
NetBody(c, bad) ==
    /\ http[c].st = "head"
    /\ task[c] = "await_body"
    /\ \E b \in Bodies(op[c].req, catalog, bad) :
          http' = [http EXCEPT ![c].st = "body", ![c].body = b]
    /\ UNCHANGED <<catalog, pc, task, op, acc, arcs, reqlog, errlog, writes,
                   parsed, got, ret>>

\* the connection fails: refused, reset, TLS failure, cut body
NetFail(c) ==
    /\ \/ http[c].st = "sent"
       \/ http[c].st = "head" /\ task[c] = "await_body"
    /\ http' = [http EXCEPT ![c].st = "failed"]
    /\ UNCHANGED <<catalog, pc, task, op, acc, arcs, reqlog, errlog, writes,
                   parsed, got, ret>>

\* the second and_then: serde_json::from_slice(&body)?
TaskParse(c) ==
    /\ task[c] = "await_body"
    /\ http[c].st = "body"
    /\ parsed' = [parsed EXCEPT ![c] = FromSlice(http[c].body, ResponseType(op[c].req))]
    /\ task' = [task EXCEPT ![c] = IF parsed'[c].ok THEN "map" ELSE "map_err"]
    /\ UNCHANGED <<catalog, pc, op, acc, arcs, http, reqlog, errlog, writes, got, ret>>

\* from_err: a hyper::Error of the request or of the body becomes FetchError::Http
TaskFromErr(c) ==
    /\ task[c] \in {"await_response", "await_body"}
    /\ http[c].st = "failed"
    /\ parsed' = [parsed EXCEPT ![c] = Http]
    /\ task' = [task EXCEPT ![c] = "map_err"]
    /\ UNCHANGED <<catalog, pc, op, acc, arcs, http, reqlog, errlog, writes, got, ret>>

\* the parsed records moved over back to front
AppendVecReversed(v, serie) == v \o [i \in 1..Len(serie) |-> serie[Len(serie) + 1 - i]]

\* Vec::append on the locked vector
AppendVec(v, serie) == v \o serie

\* the map closure appending the parsed records twice
TaskLockAppendTwice(c) ==
    /\ task[c] = "map"
    /\ ~arcs[acc[c]].locked
    /\ arcs' = [arcs EXCEPT ![acc[c]].locked = TRUE,
                            ![acc[c]].data = AppendVec(AppendVec(@, parsed[c].val),
                                                       parsed[c].val)]
    /\ writes' = [writes EXCEPT ![c] = @ + 2]
    /\ task' = [task EXCEPT ![c] = "guard"]
    /\ UNCHANGED <<catalog, pc, op, acc, http, reqlog, errlog, parsed, got, ret>>

\* map: tmp.lock().unwrap() and append(&mut serie); a poisoned lock makes the
\* unwrap panic, which drops the future
TaskLockAppend(c) ==
    /\ task[c] = "map"
    /\ ~arcs[acc[c]].locked
    /\ IF arcs[acc[c]].poisoned
       THEN /\ task' = [task EXCEPT ![c] = "drop"]
            /\ UNCHANGED <<arcs, writes>>
       ELSE /\ arcs' = [arcs EXCEPT ![acc[c]].locked = TRUE,
                                    ![acc[c]].data = AppendVec(@, parsed[c].val)]
            /\ writes' = [writes EXCEPT ![c] = @ + 1]
            /\ task' = [task EXCEPT ![c] = "guard"]
    /\ UNCHANGED <<catalog, pc, op, acc, http, reqlog, errlog, parsed, got, ret>>

\* the MutexGuard temporary is dropped at the end of the statement
TaskUnlock(c) ==
    /\ task[c] = "guard"
    /\ arcs' = [arcs EXCEPT ![acc[c]].locked = FALSE]
    /\ task' = [task EXCEPT ![c] = "drop"]
    /\ UNCHANGED <<catalog, pc, op, acc, http, reqlog, errlog, writes, parsed,
                   got, ret>>

\* map_err: eprintln!("{}", e)
TaskLogErr(c) ==
    /\ task[c] = "map_err"
    /\ errlog' = [errlog EXCEPT ![c] = Append(@, parsed[c].kind)]
    /\ task' = [task EXCEPT ![c] = "drop"]
    /\ UNCHANGED <<catalog, pc, op, acc, arcs, http, reqlog, writes, parsed,
                   got, ret>>

\* the future is finished and dropped, and with it the closure's clone tmp
TaskDrop(c) ==
    /\ task[c] = "drop"
    /\ arcs' = [arcs EXCEPT ![acc[c]].strong = @ - 1]
    /\ task' = [task EXCEPT ![c] = "complete"]
    /\ UNCHANGED <<catalog, pc, op, acc, http, reqlog, errlog, writes, parsed,
                   got, ret>>

\* a run that gives up waiting while the future is still pending
RuntimeIdleOrTimedOut(c) == task[c] # "none"

\* tokio::run blocks until the runtime is idle: the spawned future is done
RuntimeIdle(c) == task[c] = "complete"

RunReturn(c) ==
    /\ pc[c] = "run"
    /\ RuntimeIdle(c)
    /\ pc' = [pc EXCEPT ![c] = "unwrap"]
    /\ UNCHANGED <<catalog, task, op, acc, arcs, http, reqlog, errlog, writes,
                   parsed, got, ret>>

\* get handing the task's failure back as its own result
UnwrapPropagating(c) ==
    /\ pc[c] = "unwrap"
    /\ got' = [got EXCEPT ![c] =
                 IF parsed[c].ok THEN Ok(arcs[acc[c]].data) ELSE parsed[c]]
    /\ arcs' = [arcs EXCEPT ![acc[c]] = FreeArc]
    /\ pc' = [pc EXCEPT ![c] = "returned"]
    /\ UNCHANGED <<catalog, task, op, acc, http, reqlog, errlog, writes, parsed, ret>>

\* Ok(Arc::try_unwrap(result).unwrap().into_inner().unwrap()): try_unwrap
\* fails unless this is the only Arc, into_inner fails on a poisoned lock
Unwrap(c) ==
    /\ pc[c] = "unwrap"
    /\ IF arcs[acc[c]].strong = 1 /\ ~arcs[acc[c]].poisoned
       THEN /\ got' = [got EXCEPT ![c] = Ok(arcs[acc[c]].data)]
            /\ arcs' = [arcs EXCEPT ![acc[c]] = FreeArc]
            /\ pc' = [pc EXCEPT ![c] = "returned"]
       ELSE /\ pc' = [pc EXCEPT ![c] = "panicked"]
            /\ UNCHANGED <<got, arcs>>
    /\ UNCHANGED <<catalog, task, op, acc, http, reqlog, errlog, writes, parsed, ret>>

\* the rest of the operation: get's caller has its result; the searches
\* apply ? to it and filter
Finish(c) ==
    /\ pc[c] = "returned"
    /\ ret' = [ret EXCEPT ![c] =
                 CASE op[c].kind = "get" -> got[c]
                   [] op[c].kind = "search_by_name" ->
                        IF got[c].ok THEN SearchByName(got[c].val, op[c].name)
                        ELSE got[c]
                   [] op[c].kind = "search_by_id" ->
                        IF got[c].ok THEN SearchById(got[c].val, op[c].id)
                        ELSE got[c]]
    /\ pc' = [pc EXCEPT ![c] = "done"]
    /\ UNCHANGED <<catalog, task, op, acc, arcs, http, reqlog, errlog, writes,
                   parsed, got>>

\* the caller has consumed the result and is free to call again
Return(c) ==
    /\ pc[c] = "done"
    /\ pc' = [pc EXCEPT ![c] = "idle"]
    /\ task' = [task EXCEPT ![c] = "none"]
    /\ op' = [op EXCEPT ![c] = NoOp]
    /\ acc' = [acc EXCEPT ![c] = 0]
    /\ http' = [http EXCEPT ![c] = NoHttp]
    /\ reqlog' = [reqlog EXCEPT ![c] = <<>>]
    /\ errlog' = [errlog EXCEPT ![c] = <<>>]
    /\ writes' = [writes EXCEPT ![c] = 0]
    /\ parsed' = [parsed EXCEPT ![c] = None]
    /\ got' = [got EXCEPT ![c] = None]
    /\ ret' = [ret EXCEPT ![c] = None]
    /\ UNCHANGED <<catalog, arcs>>

\* ---------------------------------------------------------------- specifications
\* what the library and the runtime do on their own
ProgramStep(c) ==
    \/ GetStart(c)
    \/ TaskFetch(c)
    \/ TaskConcat(c)
    \/ TaskParse(c)
    \/ TaskFromErr(c)
    \/ TaskLockAppend(c)
    \/ TaskUnlock(c)
    \/ TaskLogErr(c)
    \/ TaskDrop(c)
    \/ RunReturn(c)
    \/ Unwrap(c)
    \/ Finish(c)

\* what the network does, given the statuses and the unusable bodies it may send
NetStep(c, statuses, bad) ==
    \/ NetRespond(c, statuses)
    \/ NetBody(c, bad)
    \/ NetFail(c)

\* one caller, every call of the public surface, every body
Next ==
    \/ Call(1, AllOps)
    \/ ProgramStep(1)
    \/ NetStep(1, Statuses, BadBodies)
    \/ Return(1)

Spec == Init /\ [][Next]_vars

\* the runtime keeps polling a future that can make progress and the caller
\* keeps running; nothing obliges the network to answer
FairSpec == InitConc /\ [][Next]_vars /\ WF_vars(ProgramStep(1))

\* concurrent callers
NextConc ==
    \E c \in Callers :
        \/ Call(c, ConcOps)
        \/ ProgramStep(c)
        \/ NetStep(c, {200}, {Garbage})
        \/ Return(c)

SpecConc == InitConc /\ [][NextConc]_vars

\* ---------------------------------------------------------------- claims
\* get has returned to its caller
GetReturned(c) == pc[c] \in {"returned", "done"}

\* the response arrived whole and is an array of the expected records
FetchedOk(c) ==
    /\ http[c].st = "body"
    /\ Deserializes(http[c].body, ResponseType(op[c].req))

\* the response arrived whole and is something else
FetchedUnusable(c) ==
    /\ http[c].st = "body"
    /\ ~Deserializes(http[c].body, ResponseType(op[c].req))

\* the objects the site sent
Sent(c) == http[c].body.elems

\* record r is what object o says, field by field
SameRecord(r, o, T) ==
    /\ DOMAIN r = DOMAIN Fields(T)
    /\ \A f \in DOMAIN Fields(T) : r[f] = Value(o[f])

MaxOf(S) == CHOOSE x \in S : \A y \in S : y <= x

\* C1: whenever the body of the response does not deserialize as a sequence
\* of the expected records, get returns an error of kind Json, never a
\* successful sequence.
C1_JsonErrorReturned ==
    \A c \in Callers :
        (GetReturned(c) /\ FetchedUnusable(c)) => got[c].kind = "Json"

\* C2: whenever the endpoint answers with status 500 or the connection
\* fails, get returns an error of kind Http.
C2_HttpErrorReturned ==
    \A c \in Callers :
        (GetReturned(c) /\ (http[c].st = "failed" \/ http[c].status = 500))
            => got[c].kind = "Http"

\* the places of the catalog entries whose identifier is the id asked for
IdPlaces(c) ==
    {i \in 1..Len(Sent(c)) : Value(Sent(c)[i].id_serie) = op[c].id}

\* C3: on a successfully fetched catalog, search_by_id returns the last entry
\* in catalog order whose identifier equals id, and fails with NotFound, the
\* message holding the decimal id, when there is none.
C3_SearchById ==
    \A c \in Callers :
        (pc[c] = "done" /\ op[c].kind = "search_by_id" /\ FetchedOk(c)) =>
            IF IdPlaces(c) # {}
            THEN /\ ret[c].ok
                 /\ SameRecord(ret[c].val, Sent(c)[MaxOf(IdPlaces(c))], "Serie")
            ELSE /\ ret[c].kind = "NotFound"
                 /\ Contains(ret[c].msg, Decimal(op[c].id))

\* two different entries share the id asked for and search_by_id has answered
C3_Witness ==
    \E c \in Callers :
        /\ pc[c] = "done" /\ op[c].kind = "search_by_id" /\ FetchedOk(c)
        /\ \E i, j \in IdPlaces(c) : i < j /\ Sent(c)[i] # Sent(c)[j]
        /\ ret[c].ok

\* the places of the catalog entries whose lower-cased name contains the
\* lower-cased query
NamePlaces(c) ==
    {i \in 1..Len(Sent(c)) :
        Contains(ToLowerCase(Value(Sent(c)[i].nome_serie)), ToLowerCase(op[c].name))}

\* C4: on a successfully fetched catalog, search_by_name returns exactly the
\* entries whose lower-cased name contains the lower-cased query, in catalog
\* order, none dropped or repeated, and fails with NotFound, the message
\* holding the query, when there is none; the empty query returns a non-empty
\* catalog whole.
C4_SearchByName ==
    \A c \in Callers :
        (pc[c] = "done" /\ op[c].kind = "search_by_name" /\ FetchedOk(c)) =>
            /\ IF NamePlaces(c) # {}
               THEN /\ ret[c].ok
                    /\ Len(ret[c].val) = Cardinality(NamePlaces(c))
                    /\ \A i \in NamePlaces(c) :
                          SameRecord(ret[c].val[Cardinality({j \in NamePlaces(c) : j <= i})],
                                     Sent(c)[i], "Serie")
               ELSE /\ ret[c].kind = "NotFound"
                    /\ Contains(ret[c].msg, op[c].name)
            /\ (op[c].name = <<>> /\ Sent(c) # <<>>) =>
                  /\ ret[c].ok
                  /\ Len(ret[c].val) = Len(Sent(c))

\* a query with an upper-case letter has selected some entries of the catalog
\* and left another out
C4_Witness ==
    \E c \in Callers :
        /\ pc[c] = "done" /\ op[c].kind = "search_by_name" /\ FetchedOk(c)
        /\ op[c].name # ToLowerCase(op[c].name)
        /\ ret[c].ok
        /\ Len(ret[c].val) < Len(Sent(c))

\* C5: whenever the GET succeeds and the body deserializes, get returns Ok
\* with the records the server sent: as many, the same, in the same order.
C5_ServerOrder ==
    \A c \in Callers :
        (GetReturned(c) /\ FetchedOk(c)) =>
            /\ got[c].ok
            /\ Len(got[c].val) = Len(Sent(c))
            /\ \A i \in 1..Len(Sent(c)) :
                  SameRecord(got[c].val[i], Sent(c)[i], ResponseType(op[c].req))

\* get has returned two different records the server sent
C5_Witness ==
    \E c \in Callers :
        /\ GetReturned(c) /\ FetchedOk(c) /\ op[c].kind = "get"
        /\ Len(Sent(c)) >= 2
        /\ Sent(c)[1] # Sent(c)[2]
        /\ got[c].ok

HttpCompleted(c) == http[c].st \in {"body", "failed"}

\* C7: get enforces no timeout: it returns only once the HTTP operation has
\* completed, with success or failure, and once that has completed get
\* eventually returns.
C7_NoTimeout ==
    \A c \in Callers :
        /\ [](pc[c] \in {"unwrap", "returned", "done"} => HttpCompleted(c))
        /\ (HttpCompleted(c) ~> GetReturned(c))

\* a call blocked in tokio::run on a connection that has not answered, with
\* nothing the library or the runtime could do
C7_Witness ==
    \E c \in Callers :
        /\ pc[c] = "run"
        /\ http[c].st = "sent"
        /\ ~ENABLED ProgramStep(c)

\* the fetch inside get failed
FetchFailed(c) == http[c].st = "failed" \/ FetchedUnusable(c)

C10_SoleOwner ==
    /\ \A c \in Callers :
          /\ pc[c] # "panicked"
          /\ pc[c] = "unwrap" =>
                /\ arcs[acc[c]].strong = 1
                /\ ~arcs[acc[c]].locked
                /\ ~arcs[acc[c]].poisoned
    /\ \A c, d \in Callers :
          (c # d /\ pc[c] \in {"run", "unwrap"} /\ pc[d] \in {"run", "unwrap"})
              => acc[c] # acc[d]

\* two callers are each about to take their accumulator back, one after a
\* fetch that succeeded and one after a fetch that failed
C10_Witness ==
    \E c, d \in Callers :
        /\ pc[c] = "unwrap" /\ parsed[c].ok
        /\ pc[d] = "unwrap" /\ ~parsed[d].ok
====
